---- MODULE Spec2Model ----
(***************************************************************************)
(* Structured-generation pipeline of the bid-document backend:             *)
(*   backend/app/utils/outline_util.py     leaf allocation, templates      *)
(*   backend/app/utils/json_util.py        clean_json_string, check_json   *)
(*   backend/app/services/openai_service.py  retry loop, outline assembly  *)
(* Python lists are 0-based; sequences here are 1-based, so list index i   *)
(* is sequence index i + 1.  Index values that the code passes around      *)
(* (important_indexes, the task index i) keep their 0-based value.         *)
(***************************************************************************)
EXTENDS Integers, Sequences, FiniteSets, TLC

VARIABLES
    \* ---- calculate_nodes_distribution driver ----
    a_pc,               \* "input" | "done" | "built"
    level1_count,       \* argument level1_count
    important_indexes,  \* argument important_indexes, a pair of 0-based indexes
    total_leaf_nodes,   \* argument total_leaf_nodes
    a_result,           \* what the call produced
    level1_index,       \* argument level1_index of the template built from a_result
    a_template,         \* the node generate_one_outline_json_by_level1 returned
    \* ---- _generate_with_json_check ----
    gen,                \* per caller: the activation's arguments, locals and outcome
    \* ---- generate_outline_v2 ----
    o_pc,               \* "idle" | "seeds" | "expanding" | "returned" | "raised"
    level_l1,           \* the parsed seed list
    nodes_distribution, \* the allocation computed at line 419
    semaphore,          \* free slots of asyncio.Semaphore(3)
    t_pc,               \* per section task: "none" | "waiting" | "running" | "done" | "raised"
    t_result,           \* per section task: the value it returned
    first_done,         \* history: index of the task that ended first, -1 if none
    outline,            \* the list returned in {"outline": outline}
    o_error,            \* the exception generate_outline_v2 raised
    \* ---- check_json driver ----
    j_pc,               \* "build" | "checked"
    j_schema,           \* the template: argument schema as a Python value
    j_data,             \* the target: the value whose serialization is json_str
    j_json_str,         \* argument json_str, a text
    j_verdict,          \* the pair check_json returned
    \* ---- generate_content_for_outline ----
    f_pc,               \* "idle" | "build" | "filling" | "returned" | "raised"
    f_valid,            \* the argument is a dict with the key outline
    f_input,            \* outline["outline"] of the argument, a list of chapters
    f_result,           \* result_outline["outline"], the copy that is filled
    f_pos,              \* path of the leaf whose generation call is awaited
    f_calls,            \* history: the generation calls ended, in order
    f_error,            \* the exception generate_content_for_outline raised
    \* ---- routers/outline.py: generate_outline.generate ----
    r_pc,               \* "idle" | "heartbeat" | "done" | "failed" | "cancelled"
    \* ---- stream_chat_completion and _collect_stream_text ----
    s_pc,               \* "idle" | "streaming" | "collected"
    s_response,         \* the whole text the provider sends, in pieces
    s_rest,             \* the part of it that has not arrived yet
    is_thinking,        \* local is_thinking of stream_chat_completion
    full_content        \* local full_content of _collect_stream_text

allocVars == <<a_pc, level1_count, important_indexes, total_leaf_nodes, a_result,
               level1_index, a_template>>

genVars == <<gen>>

outlineVars == <<o_pc, level_l1, nodes_distribution, semaphore, t_pc, t_result,
                 first_done, outline, o_error>>

jsonVars == <<j_pc, j_schema, j_data, j_json_str, j_verdict>>

fillVars == <<f_pc, f_valid, f_input, f_result, f_pos, f_calls, f_error>>

routeVars == <<r_pc>>

streamVars == <<s_pc, s_response, s_rest, is_thinking, full_content>>

vars == <<allocVars, genVars, outlineVars, jsonVars, fillVars, routeVars, streamVars>>

(***************************************************************************)
(* Bounds                                                                  *)
(***************************************************************************)
MaxLevel1 == 8          \* largest level1_count tried by the allocation driver
MaxTotalLeaf == 150     \* largest total_leaf_nodes tried by the allocation driver
MaxRetriesTried == 3    \* largest max_retries tried by the retry driver
MaxSeeds == 4           \* longest seed list the generator returns
MaxDrawCode == 1        \* draws of random.sample explored: first * count + second <= MaxDrawCode
MaxJsonSize == 4        \* most nodes (scalars, lists, objects) in a value tried by the check_json driver
MaxChapters == 4        \* most chapters in an outline tried by the content driver
MaxPairSize == 5        \* most nodes in template and target together tried by the validation driver
MaxResponseLen == 5     \* most pieces in a response tried by the stream driver

(***************************************************************************)
(* Arithmetic helpers                                                      *)
(***************************************************************************)
RECURSIVE SumSeq(_)
SumSeq(s) == IF s = <<>> THEN 0 ELSE Head(s) + SumSeq(Tail(s))

\* Python's round() on the exact quotient num/den (round half to even).
RoundHalfEven(num, den) ==
    LET q == num \div den
        r == num % den
    IN  IF 2 * r > den THEN q + 1
        ELSE IF 2 * r < den THEN q
        ELSE IF q % 2 = 0 THEN q ELSE q + 1

\* num/den lies exactly half way between two integers.
IsTie(num, den) == 2 * (num % den) = den

\* round() of a quotient that the code evaluates in IEEE-754 doubles with the
\* inexact constants 1.4 and 1.2.  Away from a tie the double and the exact
\* quotient round alike; at an exact tie the double lands a few ulps to either
\* side (9*1.0/3.6 evaluates to 2.5000000000000004, 6*1.4/5.6 to
\* 1.4999999999999996), so the direction is an input, up.
RoundDouble(num, den, up) ==
    IF IsTie(num, den) THEN (num \div den) + (IF up THEN 1 ELSE 0)
    ELSE RoundHalfEven(num, den)

(***************************************************************************)
(* outline_util.py                                                         *)
(***************************************************************************)
\* Weights scaled by 10: p_weight, s_weight, n_weight = 1.4, 1.2, 1.0
p_weight10 == 14
s_weight10 == 12
n_weight10 == 10

\* total_weight = (level1_count - 2) * n_weight + p_weight + s_weight, times 10
total_weight10(count) == (count - 2) * n_weight10 + p_weight10 + s_weight10

\* base_l2 = round(total_leaf_nodes / level1_count / 3)
base_l2(count, total) == RoundHalfEven(total, count * 3)

\* Variant: the two priority weights exchanged.
level2_nodes_weights_swapped(count, idx, total) ==
    LET b == RoundHalfEven(total, count * 3)
    IN  [k \in 1..count |->
            IF k - 1 = idx[2] THEN RoundHalfEven(b * p_weight10, 10)
            ELSE IF k - 1 = idx[1] THEN RoundHalfEven(b * s_weight10, 10)
            ELSE b]

\* level2_nodes after lines 18-20; the second assignment wins when both
\* indexes are equal.
level2_nodes(count, idx, total) ==
    LET b == base_l2(count, total)
    IN  [k \in 1..count |->
            IF k - 1 = idx[2] THEN RoundHalfEven(b * s_weight10, 10)
            ELSE IF k - 1 = idx[1] THEN RoundHalfEven(b * p_weight10, 10)
            ELSE b]

\* Variant: the weights of the two priority sections exchanged.
weight10_priority_swapped(i, idx) ==
    IF i = idx[1] THEN s_weight10
    ELSE IF i = idx[2] THEN p_weight10
    ELSE n_weight10

\* weight of section i (0-based), times 10 (line 25)
weight10(i, idx) ==
    IF i = idx[1] THEN p_weight10
    ELSE IF i = idx[2] THEN s_weight10
    ELSE n_weight10

\* Sections other than the last whose share is an exact tie.
TieSections(count, idx, total) ==
    {i \in 0..(count - 2) :
        IsTie(total * weight10(i, idx), total_weight10(count))}

\* round(total_leaf_nodes * weight / total_weight) for a section before the last
rounded_target(i, count, idx, total, up) ==
    RoundDouble(total * weight10(i, idx), total_weight10(count), i \in up)

\* leaf_nodes: every section but the last takes its rounded share, the last
\* one takes rem_leaves (lines 24-32).
leaf_nodes(count, idx, total, up) ==
    LET head == [k \in 1..(count - 1) |-> rounded_target(k - 1, count, idx, total, up)]
    IN  Append(head, total - SumSeq(head))

\* Variant: the extra leaves go to the last level-2 nodes, not the first.
spread_extra_last(target, l2_count) ==
    [j \in 1..l2_count |->
        (target \div l2_count)
            + (IF l2_count - j < target % l2_count THEN 1 ELSE 0)]

\* [l_per_l2 + (1 if j < extra else 0) for j in range(l2_count)] (lines 29-30)
spread(target, l2_count) ==
    [j \in 1..l2_count |->
        (target \div l2_count) + (IF j - 1 < target % l2_count THEN 1 ELSE 0)]

NoDistribution ==
    [status |-> "none", level2_nodes |-> <<>>, leaf_nodes |-> <<>>,
     leaf_per_level2 |-> <<>>]

\* The whole function.  target // l2_count raises ZeroDivisionError as soon
\* as a section's l2_count is 0.
calculate_nodes_distribution(count, idx, total, up) ==
    LET l2 == level2_nodes(count, idx, total)
        ln == leaf_nodes(count, idx, total, up)
    IN  IF \E k \in 1..count : l2[k] = 0
        THEN [NoDistribution EXCEPT !.status = "ZeroDivisionError"]
        ELSE [status |-> "returned",
              level2_nodes |-> l2,
              leaf_nodes |-> ln,
              leaf_per_level2 |-> [k \in 1..count |-> spread(ln[k], l2[k])]]

\* A node of the outline: keys is the set of the keys its dict holds, id a
\* text in pieces, children the list under the key children.
NoTemplate ==
    [keys |-> {}, id |-> <<>>, title |-> "", description |-> "", children |-> <<>>]

\* generate_one_outline_json_by_level1 (lines 37-52).  range(n) is empty for
\* n <= 0, as 1..n is.
generate_one_outline_json_by_level1(level1_title, index, dist) ==
    LET l2_count == dist.level2_nodes[index]
        leaf_dist == dist.leaf_per_level2[index]
        leaf(j, k) ==
            [keys |-> {"id", "title", "description"},
             id |-> <<ToString(index), ".", ToString(j), ".", ToString(k)>>,
             title |-> "", description |-> "", children |-> <<>>]
        level2(j) ==
            [keys |-> {"id", "title", "description", "children"},
             id |-> <<ToString(index), ".", ToString(j)>>,
             title |-> "", description |-> "",
             children |-> [k \in 1..leaf_dist[j] |-> leaf(j, k)]]
    IN  [keys |-> {"id", "title", "description", "children"},
         id |-> <<ToString(index)>>,
         title |-> level1_title, description |-> "",
         children |-> [j \in 1..l2_count |-> level2(j)]]

(***************************************************************************)
(* json_util.py                                                            *)
(*                                                                         *)
(* A text is a sequence of tokens: the JSON punctuation, the double quote, *)
(* the space, literals, letters, and the markers that clean_json_string    *)
(* looks for.  A Python value is a record: t is its type, s the content of *)
(* a string, keys and items the keys and values of a dict in insertion     *)
(* order, items the elements of a list.                                    *)
(***************************************************************************)
Quote == "dquote"         \* the character U+0022
Space == " "
ThinkOpen == "<think>"
ThinkClose == "</think>"
Fence == "fence"           \* three backquotes, the Markdown fence
JsonTag == "json"

PyInt == [t |-> "int", s |-> <<>>, keys |-> <<>>, items |-> <<>>]
PyFloat == [t |-> "float", s |-> <<>>, keys |-> <<>>, items |-> <<>>]
PyBool == [t |-> "bool", s |-> <<>>, keys |-> <<>>, items |-> <<>>]
PyNone == [t |-> "NoneType", s |-> <<>>, keys |-> <<>>, items |-> <<>>]
PyStr(content) == [t |-> "str", s |-> content, keys |-> <<>>, items |-> <<>>]
PyList(elems) == [t |-> "list", s |-> <<>>, keys |-> <<>>, items |-> elems]
PyDict(ks, vals) == [t |-> "dict", s |-> <<>>, keys |-> ks, items |-> vals]

\* First index >= from at which text holds tok, 0 when there is none.
FirstIndex(text, tok, from) ==
    LET hits == {i \in from..Len(text) : text[i] = tok}
    IN  IF hits = {} THEN 0 ELSE CHOOSE i \in hits : \A j \in hits : i <= j

From(text, i) == SubSeq(text, i, Len(text))

RECURSIVE lstrip(_)
lstrip(text) ==
    IF text # <<>> /\ Head(text) = Space THEN lstrip(Tail(text)) ELSE text

RECURSIVE rstrip(_)
rstrip(text) ==
    IF text # <<>> /\ text[Len(text)] = Space
    THEN rstrip(SubSeq(text, 1, Len(text) - 1)) ELSE text

\* str.strip(); also what \s*(.*?)\s* keeps of the text between two fences
strip(text) == rstrip(lstrip(text))

\* re.sub of <think>.*?</think> by the empty string, DOTALL (line 10)
RECURSIVE remove_think_blocks(_)
remove_think_blocks(text) ==
    LET i == FirstIndex(text, ThinkOpen, 1)
        j == IF i = 0 THEN 0 ELSE FirstIndex(text, ThinkClose, i + 1)
    IN  IF j = 0 THEN text
        ELSE SubSeq(text, 1, i - 1) \o remove_think_blocks(From(text, j + 1))

\* re.sub of FENCE json \s*(.*?)\s* FENCE by group 1, DOTALL (line 13)
RECURSIVE remove_json_fences(_)
remove_json_fences(text) ==
    LET starts == {i \in 1..(Len(text) - 1) :
                      /\ text[i] = Fence
                      /\ text[i + 1] = JsonTag
                      /\ FirstIndex(text, Fence, i + 2) # 0}
    IN  IF starts = {} THEN text
        ELSE LET i == CHOOSE a \in starts : \A b \in starts : a <= b
                 j == FirstIndex(text, Fence, i + 2)
             IN  SubSeq(text, 1, i - 1) \o strip(SubSeq(text, i + 2, j - 1))
                     \o remove_json_fences(From(text, j + 1))

\* re.sub of FENCE \s*(.*?)\s* FENCE by group 1, DOTALL (line 14)
RECURSIVE remove_fences(_)
remove_fences(text) ==
    LET i == FirstIndex(text, Fence, 1)
        j == IF i = 0 THEN 0 ELSE FirstIndex(text, Fence, i + 1)
    IN  IF j = 0 THEN text
        ELSE SubSeq(text, 1, i - 1) \o strip(SubSeq(text, i + 1, j - 1))
                 \o remove_fences(From(text, j + 1))

clean_json_string(json_str) ==
    strip(remove_fences(remove_json_fences(remove_think_blocks(json_str))))

\* json.dumps with its default separators ", " and ": "
RECURSIVE json_dumps(_)
RECURSIVE dumps_items(_)
RECURSIVE dumps_members(_, _)
json_dumps(v) ==
    CASE v.t = "int" -> <<"1">>
      [] v.t = "float" -> <<"1.5">>
      [] v.t = "bool" -> <<"true">>
      [] v.t = "NoneType" -> <<"null">>
      [] v.t = "str" -> <<Quote>> \o v.s \o <<Quote>>
      [] v.t = "list" -> <<"[">> \o dumps_items(v.items) \o <<"]">>
      [] v.t = "dict" -> <<"{">> \o dumps_members(v.keys, v.items) \o <<"}">>
dumps_items(elems) ==
    IF elems = <<>> THEN <<>>
    ELSE json_dumps(Head(elems))
         \o (IF Len(elems) > 1 THEN <<",", Space>> \o dumps_items(Tail(elems)) ELSE <<>>)
dumps_members(ks, vals) ==
    IF ks = <<>> THEN <<>>
    ELSE <<Quote>> \o Head(ks) \o <<Quote, ":", Space>> \o json_dumps(Head(vals))
         \o (IF Len(ks) > 1 THEN <<",", Space>> \o dumps_members(Tail(ks), Tail(vals))
             ELSE <<>>)

\* json.loads: a recursive-descent parser; a result is the value read and the
\* text left, or a failure (JSONDecodeError).
ParseFail == [ok |-> FALSE, v |-> PyNone, rest |-> <<>>]
Parsed(v, rest) == [ok |-> TRUE, v |-> v, rest |-> rest]

\* d[key] = value on a dict under construction: a repeated key keeps its
\* place and takes the later value.
dict_put(d, key, value) ==
    LET at == {k \in 1..Len(d.keys) : d.keys[k] = key}
    IN  IF at = {} THEN PyDict(Append(d.keys, key), Append(d.items, value))
        ELSE PyDict(d.keys, [d.items EXCEPT ![CHOOSE k \in at : TRUE] = value])

RECURSIVE parse_value(_)
RECURSIVE parse_items(_, _)
RECURSIVE parse_members(_, _)
parse_string(text) ==
    \* text starts with the opening quote
    LET j == FirstIndex(text, Quote, 2)
    IN  IF j = 0 THEN ParseFail
        ELSE Parsed(PyStr(SubSeq(text, 2, j - 1)), From(text, j + 1))
parse_value(text0) ==
    LET text == lstrip(text0)
    IN  IF text = <<>> THEN ParseFail
        ELSE CASE Head(text) = "1" -> Parsed(PyInt, Tail(text))
               [] Head(text) = "1.5" -> Parsed(PyFloat, Tail(text))
               [] Head(text) = "true" -> Parsed(PyBool, Tail(text))
               [] Head(text) = "null" -> Parsed(PyNone, Tail(text))
               [] Head(text) = Quote -> parse_string(text)
               [] Head(text) = "[" ->
                    LET r == lstrip(Tail(text))
                    IN  IF r # <<>> /\ Head(r) = "]" THEN Parsed(PyList(<<>>), Tail(r))
                        ELSE parse_items(Tail(text), <<>>)
               [] Head(text) = "{" ->
                    LET r == lstrip(Tail(text))
                    IN  IF r # <<>> /\ Head(r) = "}" THEN Parsed(PyDict(<<>>, <<>>), Tail(r))
                        ELSE parse_members(Tail(text), PyDict(<<>>, <<>>))
               [] OTHER -> ParseFail
parse_items(text, acc) ==
    LET e == parse_value(text)
        r == lstrip(e.rest)
    IN  IF ~e.ok \/ r = <<>> THEN ParseFail
        ELSE IF Head(r) = "," THEN parse_items(Tail(r), Append(acc, e.v))
        ELSE IF Head(r) = "]" THEN Parsed(PyList(Append(acc, e.v)), Tail(r))
        ELSE ParseFail
parse_members(text0, acc) ==
    LET text == lstrip(text0)
        k == IF text # <<>> /\ Head(text) = Quote THEN parse_string(text) ELSE ParseFail
        c == lstrip(k.rest)
        e == IF k.ok /\ c # <<>> /\ Head(c) = ":" THEN parse_value(Tail(c)) ELSE ParseFail
        r == lstrip(e.rest)
    IN  IF ~e.ok \/ r = <<>> THEN ParseFail
        ELSE IF Head(r) = "," THEN parse_members(Tail(r), dict_put(acc, k.v.s, e.v))
        ELSE IF Head(r) = "}" THEN Parsed(dict_put(acc, k.v.s, e.v), Tail(r))
        ELSE ParseFail

json_loads(text) ==
    LET r == parse_value(text)
    IN  IF r.ok /\ lstrip(r.rest) = <<>> THEN r ELSE ParseFail

\* isinstance(v, (int, float)): bool is a subclass of int
is_number(v) == v.t \in {"int", "float", "bool"}

Accept == [ok |-> TRUE, msg |-> "", path |-> <<>>, key |-> <<>>]
Reject(msg, path, key) == [ok |-> FALSE, msg |-> msg, path |-> path, key |-> key]

\* Variant: the empty-target test comes before the empty-template test.
list_precheck_target_first(template_items, target_items) ==
    IF target_items = <<>> THEN "reject"
    ELSE IF template_items = <<>> THEN "accept"
    ELSE "each"

\* The two tests that open the list branch (lines 50-53)
list_precheck(template_items, target_items) ==
    IF template_items = <<>> THEN "accept"
    ELSE IF target_items = <<>> THEN "reject"
    ELSE "each"

\* check_structure (lines 39-72); path is the sequence of the pieces that
\* the code appends to its path string.
RECURSIVE check_structure(_, _, _)
RECURSIVE check_list_items(_, _, _, _)
RECURSIVE check_dict_keys(_, _, _, _)
check_structure(target, template, path) ==
    IF is_number(template) /\ is_number(target) THEN Accept
    ELSE IF template.t # target.t THEN Reject("type mismatch", path, <<>>)
    ELSE IF template.t = "list" THEN
        LET pre == list_precheck(template.items, target.items)
        IN  IF pre = "accept" THEN Accept
            ELSE IF pre = "reject" THEN Reject("empty list", path, <<>>)
            ELSE check_list_items(target.items, template.items[1], path, 1)
    ELSE IF template.t = "dict" THEN check_dict_keys(target, template, path, 1)
    ELSE Accept
\* Variant: only the first element of the target list is validated.
check_list_items_first_only(elems, template_item, path, k) ==
    IF k > 1 THEN Accept
    ELSE check_structure(elems[k], template_item,
                         Append(path, "[" \o ToString(k - 1) \o "]"))

\* for i, item in enumerate(target), from the k-th item on (lines 56-60)
check_list_items(elems, template_item, path, k) ==
    IF k > Len(elems) THEN Accept
    ELSE LET r == check_structure(elems[k], template_item,
                                  Append(path, "[" \o ToString(k - 1) \o "]"))
         IN  IF ~r.ok THEN r ELSE check_list_items(elems, template_item, path, k + 1)
\* Variant: a missing key is reported at the path of the key, not at the
\* path of the object that lacks it.
check_dict_keys_key_in_path(target, template, path, k) ==
    IF k > Len(template.keys) THEN Accept
    ELSE LET key == template.keys[k]
             at == {n \in 1..Len(target.keys) : target.keys[n] = key}
         IN  IF at = {} THEN Reject("missing key", path \o <<".">> \o key, key)
             ELSE LET r == check_structure(target.items[CHOOSE n \in at : TRUE],
                                           template.items[k],
                                           path \o <<".">> \o key)
                  IN  IF ~r.ok THEN r ELSE check_dict_keys(target, template, path, k + 1)

\* Variant: a target with a key the template does not have is rejected.
check_dict_keys_no_extra(target, template, path, k) ==
    IF \E n \in 1..Len(target.keys) :
           \A m \in 1..Len(template.keys) : template.keys[m] # target.keys[n]
    THEN Reject("unexpected key", path, <<>>)
    ELSE IF k > Len(template.keys) THEN Accept
    ELSE LET key == template.keys[k]
             at == {n \in 1..Len(target.keys) : target.keys[n] = key}
         IN  IF at = {} THEN Reject("missing key", path, key)
             ELSE LET r == check_structure(target.items[CHOOSE n \in at : TRUE],
                                           template.items[k],
                                           path \o <<".">> \o key)
                  IN  IF ~r.ok THEN r ELSE check_dict_keys(target, template, path, k + 1)

\* for key in template, from the k-th key on (lines 64-70)
check_dict_keys(target, template, path, k) ==
    IF k > Len(template.keys) THEN Accept
    ELSE LET key == template.keys[k]
             at == {n \in 1..Len(target.keys) : target.keys[n] = key}
         IN  IF at = {} THEN Reject("missing key", path, key)
             ELSE LET r == check_structure(target.items[CHOOSE n \in at : TRUE],
                                           template.items[k],
                                           path \o <<".">> \o key)
                  IN  IF ~r.ok THEN r ELSE check_dict_keys(target, template, path, k + 1)

\* check_json (lines 18-78).  A str schema is JSON text and is parsed, a dict
\* or list schema is used as it is, any other schema is refused.
check_json(json_str, schema) ==
    LET data == json_loads(clean_json_string(json_str))
        parsed_schema == IF schema.t = "str" THEN json_loads(schema.s)
                         ELSE Parsed(schema, <<>>)
    IN  IF ~data.ok THEN Reject("JSON parse error", <<>>, <<>>)
        ELSE IF schema.t = "str" /\ ~parsed_schema.ok
             THEN Reject("schema parse error", <<>>, <<>>)
        ELSE IF schema.t \notin {"str", "dict", "list"}
             THEN Reject("schema must be a JSON string, dict or list", <<>>, <<>>)
        ELSE check_structure(data.v, parsed_schema.v, <<>>)

(***************************************************************************)
(* openai_service.py: stream_chat_completion (lines 42-103) and            *)
(* _collect_stream_text (lines 105-119)                                    *)
(*                                                                         *)
(* The provider sends the response in chunks and may cut it anywhere, also *)
(* inside a tag.  A text is a sequence of pieces: letters, whole tags, and *)
(* the halves a cut tag falls into; the text is their concatenation.       *)
(***************************************************************************)
OpenHead == "<thi"
CloseHead == "</thi"
TagTail == "nk>"

Pieces == {"a", "b", OpenHead, CloseHead, TagTail}

\* The text with every tag that lies in it in two halves written as the one
\* piece ThinkOpen or ThinkClose: the same characters, tags made visible.
RECURSIVE join_tags(_)
join_tags(text) ==
    IF Len(text) < 2 THEN text
    ELSE IF text[1] \in {OpenHead, CloseHead} /\ text[2] = TagTail
         THEN <<text[1] \o text[2]>> \o join_tags(SubSeq(text, 3, Len(text)))
         ELSE <<text[1]>> \o join_tags(Tail(text))

\* The body of the loop for one chunk (lines 63-83): the new is_thinking and
\* the text yielded, empty when nothing is yielded.
\*   "<think>" in content:  is_thinking = True, yield content.split("<think>")[0]
\*   "</think>" in content: is_thinking = False, yield content.split("</think>")[1]
\*   otherwise:             yield content unless is_thinking
filter_chunk(chunk, thinking) ==
    LET content == join_tags(chunk)
        open == FirstIndex(content, ThinkOpen, 1)
        close == FirstIndex(content, ThinkClose, 1)
        close2 == IF close = 0 THEN 0 ELSE FirstIndex(content, ThinkClose, close + 1)
    IN  IF open # 0
        THEN [is_thinking |-> TRUE, yield |-> SubSeq(content, 1, open - 1)]
        ELSE IF close # 0
        THEN [is_thinking |-> FALSE,
              yield |-> IF close2 = 0 THEN From(content, close + 1)
                        ELSE SubSeq(content, close + 1, close2 - 1)]
        ELSE [is_thinking |-> thinking,
              yield |-> IF thinking THEN <<>> ELSE content]

(***************************************************************************)
(* openai_service.py: _generate_with_json_check (lines 121-162)            *)
(*                                                                         *)
(* The generator is the external collaborator.  A response is identified   *)
(* by the caller it answers and its serial number, and belongs to one of   *)
(* four classes of text:                                                   *)
(*   valid     JSON of the expected shape                                  *)
(*   fenced    JSON of the expected shape inside a Markdown code fence     *)
(*   mismatch  JSON of another shape                                       *)
(*   garbage   text that is not JSON                                       *)
(***************************************************************************)
\* Caller 0 is the activation under study (the seed call of
\* generate_outline_v2); caller i + 1 is the section task with index i.
Callers == 0..MaxSeeds

Kinds == {"valid", "fenced", "mismatch", "garbage"}

NoResponse == [caller |-> -1, call |-> 0, kind |-> "none", seeds |-> 0]

\* isok of line 146: clean_json_string removes the fence before parsing.
passes_check(resp) == resp.kind \in {"valid", "fenced"}

\* error_msg of line 146
check_error(resp) ==
    IF resp.kind = "garbage" THEN "JSON parse error"
    ELSE IF resp.kind = "mismatch" THEN "structure mismatch"
    ELSE ""

\* The answers the generator may give to call number k of caller p.  Only a
\* well-shaped answer to the seed call carries seeds; the seed schema has a
\* non-empty list, so a validated seed list has at least one entry.
Responses(p, k) ==
    {r \in [caller : {p}, call : {k}, kind : Kinds, seeds : 0..MaxSeeds] :
        (r.seeds > 0) <=> (p = 0 /\ passes_check(r))}

GenIdle ==
    [pc |-> "idle", max_retries |-> 0, raise_on_fail |-> FALSE, log_prefix |-> "",
     attempt |-> 0, last_error_msg |-> "", full_content |-> NoResponse,
     result |-> NoResponse, exception |-> <<>>,
     calls |-> 0, sleeps |-> 0, validations |-> <<>>,
     messages |-> <<>>, temperature |-> 0, response_format |-> "None",
     requests |-> <<>>]

\* Entry of the function: attempt = 0, last_error_msg = "" (lines 136-137).
\* The conversation is the caller's system and user message; both callers
\* pass temperature=0.7, here in tenths, and response_format json_object
\* (lines 404-405 and 514-515).
GenStart(maxr, rof, prefix) ==
    [GenIdle EXCEPT !.pc = "call", !.max_retries = maxr, !.raise_on_fail = rof,
                    !.log_prefix = prefix,
                    !.messages = <<"system", "user">>,
                    !.temperature = 7,
                    !.response_format = "json_object"]

\* Variant: the error of the failed attempt is appended to the conversation.
generator_request_with_feedback(g) ==
    [messages |-> IF g.last_error_msg = "" THEN g.messages
                  ELSE Append(g.messages, g.last_error_msg),
     temperature |-> g.temperature,
     response_format |-> g.response_format]

\* The arguments of _collect_stream_text in one attempt (lines 140-144): the
\* parameters of the function as they are, none of them ever reassigned.
generator_request(g) ==
    [messages |-> g.messages,
     temperature |-> g.temperature,
     response_format |-> g.response_format]

\* Variant: the retry budget is tested before the verdict, so a valid
\* response is discarded while retries remain.
after_check_budget_first(isok, att, maxr, rof) ==
    IF att < maxr THEN "retry"
    ELSE IF isok THEN "return"
    ELSE IF rof THEN "raise" ELSE "return"

\* Variant: attempt > max_retries, one attempt too many.
after_check_off_by_one(isok, att, maxr, rof) ==
    IF isok THEN "return"
    ELSE IF att > maxr THEN (IF rof THEN "raise" ELSE "return")
    ELSE "retry"

\* The branch taken after check_json (lines 147-160)
after_check(isok, att, maxr, rof) ==
    IF isok THEN "return"
    ELSE IF att >= maxr THEN (IF rof THEN "raise" ELSE "return")
    ELSE "retry"

\* Exception(f"{prefix}check_json ...: {last_error_msg}") (lines 151, 156)
exception_message(prefix, err) == <<prefix, "check_json failed: ", err>>

\* One pass of the while loop: the generator call, check_json and the branch.
\* The backoff sleep that follows a failed attempt is part of the pass.
GenAttempt(g, resp) ==
    LET isok == passes_check(resp)
        err == IF isok THEN g.last_error_msg ELSE check_error(resp)
        branch == after_check(isok, g.attempt, g.max_retries, g.raise_on_fail)
    IN  [g EXCEPT
            !.full_content = resp,
            !.calls = @ + 1,
            !.requests = Append(@, generator_request(g)),
            !.validations = Append(@, isok),
            !.last_error_msg = err,
            !.attempt = IF branch = "retry" THEN @ + 1 ELSE @,
            !.sleeps = IF branch = "retry" THEN @ + 1 ELSE @,
            !.result = IF branch = "return" THEN resp ELSE @,
            !.exception = IF branch = "raise"
                          THEN exception_message(g.log_prefix, err) ELSE @,
            !.pc = IF branch = "return" THEN "returned"
                   ELSE IF branch = "raise" THEN "raised" ELSE "call"]

(***************************************************************************)
(* openai_service.py: generate_outline_v2 (lines 341-437) and              *)
(* process_level1_node (lines 439-520)                                     *)
(***************************************************************************)
seed_max_retries == 3           \* max_retries=3, line 403
seed_raise_on_fail_off == FALSE \* variant: the seed call made fail-soft
seed_raise_on_fail == TRUE      \* raise_on_fail=True, line 407
seed_log_prefix == "level-1 outline"
section_max_retries == 3        \* max_retries=3, line 513
section_raise_on_fail == FALSE  \* raise_on_fail=False, line 517
expected_word_count == 100000   \* line 413
leaf_node_count == expected_word_count \div 1500
semaphore_limit == 3            \* asyncio.Semaphore(3), line 422

\* log_prefix of the section task with index i (line 516)
section_log_prefix(i) == "chapter " \o ToString(i + 1)

Tasks == 0..(MaxSeeds - 1)

NoError == [type |-> "none", msg |-> <<>>]

\* json.loads(clean_json_string(full_content)) succeeds (line 411)
loads_cleaned_ok(resp) == resp.kind \in {"valid", "fenced", "mismatch"}

\* json.loads(full_content.strip()) succeeds (line 520): the fence is not
\* removed here.
loads_stripped_ok(resp) == resp.kind \in {"valid", "mismatch"}

\* level_l1: one entry per seed of the response, entry j carrying title j
parse_seeds(resp) == [j \in 1..resp.seeds |-> j]

\* The value json.loads builds from a section response: it is the content of
\* the response of that task, of that response's shape.
NoNode == [caller |-> -1, kind |-> "none"]
parse_node(resp) == [caller |-> resp.caller, kind |-> resp.kind]

\* outline_util.get_random_indexes: the pairs random.sample may draw; the
\* empty set stands for the ValueError raised when max_index < 2.
get_random_indexes(max_index) ==
    IF max_index < 2 THEN {}
    ELSE {p \in (0..(max_index - 1)) \X (0..(max_index - 1)) : p[1] # p[2]}

\* Tasks as they stand when gather first suspends: every task has run up to
\* its first await, so the first semaphore_limit tasks hold a slot and wait
\* for the generator, the others wait for the semaphore.
initial_task_pc(n) ==
    [i \in Tasks |-> IF i >= n THEN "none"
                     ELSE IF i < semaphore_limit THEN "running" ELSE "waiting"]

\* The draws of random.sample that the outline runs explore.
RandomDraws(n) ==
    {p \in get_random_indexes(n) : p[1] * n + p[2] <= MaxDrawCode}

\* Variant: the result of the task that ended first is put first.
gather_first_done_first(results, n, first) ==
    [k \in 1..n |-> IF k = 1 THEN results[first]
                    ELSE IF k - 1 = first THEN results[0]
                    ELSE results[k - 1]]

\* asyncio.gather(*tasks): the results in the order of the awaitables,
\* whichever task ended first.
gather(results, n, first) == [k \in 1..n |-> results[k - 1]]

\* Variant: the slot is given back only when the task returns a value.
aexit_releases_on_return_only(end) == end = "done"

\* "async with semaphore" (lines 425-426): leaving the block releases the
\* slot, whether process_level1_node returned ("done") or raised.
aexit_releases(end) == end \in {"done", "raised"}

\* The task that the released slot is handed to: the first waiter, if any.
WaitingTasks == {i \in Tasks : t_pc[i] = "waiting"}
next_waiter == CHOOSE i \in WaitingTasks : \A j \in WaitingTasks : i <= j

SeedResponses == Responses(0, gen[0].calls + 1)

\* The seed call fails validation and is retried (lines 400-408).
SeedRetry ==
    /\ o_pc = "seeds"
    /\ gen[0].pc = "call"
    /\ \E resp \in SeedResponses :
          LET g0 == GenAttempt(gen[0], resp)
          IN  /\ g0.pc = "call"
              /\ gen' = [gen EXCEPT ![0] = g0]
    /\ UNCHANGED <<routeVars, streamVars, fillVars, allocVars, outlineVars, jsonVars>>

\* The seed call raises: the exception leaves generate_outline_v2.
SeedsExhausted ==
    /\ o_pc = "seeds"
    /\ gen[0].pc = "call"
    /\ \E resp \in SeedResponses :
          LET g0 == GenAttempt(gen[0], resp)
          IN  /\ g0.pc = "raised"
              /\ gen' = [gen EXCEPT ![0] = g0]
              /\ o_error' = [type |-> "Exception", msg |-> g0.exception]
    /\ o_pc' = "raised"
    /\ UNCHANGED <<routeVars, streamVars, fillVars, allocVars, jsonVars, level_l1, nodes_distribution, semaphore, t_pc,
                   t_result, first_done, outline>>

\* The seed call returns and lines 411-419 raise: the text does not parse,
\* get_random_indexes refuses fewer than 2 seeds, or the allocation divides
\* by zero.
SeedsRejected ==
    /\ o_pc = "seeds"
    /\ gen[0].pc = "call"
    /\ \E resp \in SeedResponses :
          LET g0 == GenAttempt(gen[0], resp)
              n == g0.result.seeds
          IN  /\ g0.pc = "returned"
              /\ gen' = [gen EXCEPT ![0] = g0]
              /\ IF ~loads_cleaned_ok(g0.result)
                 THEN /\ o_error' = [type |-> "JSONDecodeError", msg |-> <<>>]
                      /\ UNCHANGED level_l1
                 ELSE /\ level_l1' = parse_seeds(g0.result)
                      /\ IF get_random_indexes(n) = {}
                         THEN o_error' = [type |-> "ValueError",
                                          msg |-> <<"max_index must be at least 2">>]
                         ELSE /\ calculate_nodes_distribution(
                                     n, <<0, 1>>, leaf_node_count, {}).status
                                  = "ZeroDivisionError"
                              /\ o_error' = [type |-> "ZeroDivisionError", msg |-> <<>>]
    /\ o_pc' = "raised"
    /\ UNCHANGED <<routeVars, streamVars, fillVars, allocVars, jsonVars, nodes_distribution, semaphore, t_pc, t_result,
                   first_done, outline>>

\* The seed call returns a list of at least 2 seeds: allocation, then one
\* task per seed, then gather (lines 411-433).  The activation of
\* _generate_with_json_check is over and its locals are dropped.
SeedsAccepted ==
    /\ o_pc = "seeds"
    /\ gen[0].pc = "call"
    /\ \E resp \in SeedResponses :
          LET g0 == GenAttempt(gen[0], resp)
              n == g0.result.seeds
          IN  /\ g0.pc = "returned"
              /\ loads_cleaned_ok(g0.result)
              /\ \E pair \in RandomDraws(n) :
                 \E up \in SUBSET TieSections(n, pair, leaf_node_count) :
                    LET dist == calculate_nodes_distribution(n, pair, leaf_node_count, up)
                    IN  /\ dist.status = "returned"
                        /\ nodes_distribution' = dist
              /\ level_l1' = parse_seeds(g0.result)
              /\ t_pc' = initial_task_pc(n)
              /\ semaphore' = IF n < semaphore_limit THEN semaphore_limit - n ELSE 0
              /\ gen' = [p \in Callers |->
                            IF p = 0 THEN GenIdle
                            ELSE IF initial_task_pc(n)[p - 1] = "running"
                                 THEN GenStart(section_max_retries, section_raise_on_fail,
                                               section_log_prefix(p - 1))
                                 ELSE gen[p]]
    /\ o_pc' = "expanding"
    /\ UNCHANGED <<routeVars, streamVars, fillVars, allocVars, jsonVars, t_result, first_done, outline, o_error>>

\* A section task's response fails validation and the task retries.
TaskRetry(i) ==
    /\ t_pc[i] = "running"
    /\ gen[i + 1].pc = "call"
    /\ \E resp \in Responses(i + 1, gen[i + 1].calls + 1) :
          LET g1 == GenAttempt(gen[i + 1], resp)
          IN  /\ g1.pc = "call"
              /\ gen' = [gen EXCEPT ![i + 1] = g1]
    /\ UNCHANGED <<routeVars, streamVars, fillVars, allocVars, outlineVars, jsonVars>>

\* A section task ends: _generate_with_json_check returns, line 520 parses
\* the text and returns the value or raises, and leaving "async with" gives
\* the slot to the first waiting task or back to the semaphore.  The
\* activation of _generate_with_json_check is over and its locals are dropped.
TaskEnd(i) ==
    /\ t_pc[i] = "running"
    /\ gen[i + 1].pc = "call"
    /\ \E resp \in Responses(i + 1, gen[i + 1].calls + 1) :
          LET g1 == GenAttempt(gen[i + 1], resp)
              ok == g1.pc = "returned" /\ loads_stripped_ok(g1.result)
              end == IF ok THEN "done" ELSE "raised"
          IN  /\ g1.pc # "call"
              /\ t_result' = [t_result EXCEPT ![i] = IF ok THEN parse_node(g1.result) ELSE @]
              /\ IF ~aexit_releases(end)
                 THEN /\ t_pc' = [t_pc EXCEPT ![i] = end]
                      /\ gen' = [gen EXCEPT ![i + 1] = GenIdle]
                      /\ UNCHANGED semaphore
                 ELSE IF WaitingTasks = {}
                 THEN /\ t_pc' = [t_pc EXCEPT ![i] = end]
                      /\ gen' = [gen EXCEPT ![i + 1] = GenIdle]
                      /\ semaphore' = semaphore + 1
                 ELSE /\ t_pc' = [t_pc EXCEPT ![i] = end, ![next_waiter] = "running"]
                      /\ gen' = [gen EXCEPT
                                    ![i + 1] = GenIdle,
                                    ![next_waiter + 1] =
                                        GenStart(section_max_retries, section_raise_on_fail,
                                                 section_log_prefix(next_waiter))]
                      /\ UNCHANGED semaphore
    /\ first_done' = IF first_done = -1 THEN i ELSE first_done
    /\ UNCHANGED <<routeVars, streamVars, fillVars, allocVars, jsonVars, o_pc, level_l1, nodes_distribution, outline, o_error>>

\* gather: every task has returned, the outline is assembled and returned.
GatherReturn ==
    /\ o_pc = "expanding"
    /\ \A i \in Tasks : i < Len(level_l1) => t_pc[i] = "done"
    /\ outline' = gather(t_result, Len(level_l1), first_done)
    /\ o_pc' = "returned"
    /\ UNCHANGED <<routeVars, streamVars, fillVars, allocVars, jsonVars, genVars, level_l1, nodes_distribution, semaphore, t_pc,
                   t_result, first_done, o_error>>

\* gather: a task has raised; the exception leaves generate_outline_v2 at
\* once, the other tasks are not cancelled.
GatherRaise ==
    /\ o_pc = "expanding"
    /\ \E i \in Tasks : t_pc[i] = "raised"
    /\ o_error' = [type |-> "JSONDecodeError", msg |-> <<>>]
    /\ o_pc' = "raised"
    /\ UNCHANGED <<routeVars, streamVars, fillVars, allocVars, jsonVars, genVars, level_l1, nodes_distribution, semaphore, t_pc,
                   t_result, first_done, outline>>

(***************************************************************************)
(* openai_service.py: generate_content_for_outline (lines 211-265)         *)
(*                                                                         *)
(* A chapter is a record: keys is the set of the keys its dict holds, id   *)
(* a text in pieces, children the list under the key children, content the *)
(* text under the key content.  A position is the path of 1-based indexes  *)
(* that leads from the top-level list to a chapter.                        *)
(***************************************************************************)
Chapter(id, with_children) ==
    [keys |-> {"id", "title", "description"}
                 \cup (IF with_children THEN {"children"} ELSE {}),
     id |-> id, title |-> "title", description |-> "description",
     children |-> <<>>, content |-> <<>>]

RECURSIVE node_at(_, _)
node_at(chapters, p) ==
    IF Len(p) = 1 THEN chapters[p[1]]
    ELSE node_at(chapters[p[1]].children, Tail(p))

children_at(chapters, p) == IF p = <<>> THEN chapters ELSE node_at(chapters, p).children

RECURSIVE set_chapter(_, _, _)
set_chapter(chapters, p, node) ==
    IF Len(p) = 1 THEN [chapters EXCEPT ![p[1]] = node]
    ELSE [chapters EXCEPT ![p[1]].children = set_chapter(@, Tail(p), node)]

\* Variant: every chapter is taken for a leaf.
is_leaf_always(chapter) == TRUE

\* is_leaf = 'children' not in chapter or not chapter.get('children', [])
is_leaf(chapter) == "children" \notin chapter.keys \/ chapter.children = <<>>

\* stream_chat_completion turns an exception of the API into a chunk
\* (lines 93-103)
stream_error_text(error_msg) ==
    IF error_msg = "502 Bad Gateway" THEN <<"error: gateway timeout (502 Bad Gateway)">>
    ELSE <<"error: ", error_msg>>

\* What one generation call can do: stream text, stream nothing, fail at
\* once, or fail after some text.
Outcomes == {"text", "empty", "gateway", "failure", "partial"}

generated_text(chapter) == <<"text for ">> \o chapter.id

\* Variant: the API error leaves the generator as an exception.
generate_chapter_content_propagates(chapter, outcome) ==
    CASE outcome = "text" -> [raised |-> FALSE, content |-> generated_text(chapter)]
      [] outcome = "empty" -> [raised |-> FALSE, content |-> <<>>]
      [] OTHER -> [raised |-> TRUE, content |-> <<>>]

\* The chunks of _generate_chapter_content (lines 267-339) joined by the
\* loop of lines 253-260: the generator yields what stream_chat_completion
\* yields and raises nothing.
generate_chapter_content(chapter, outcome) ==
    [raised |-> FALSE,
     content |->
        CASE outcome = "text" -> generated_text(chapter)
          [] outcome = "empty" -> <<>>
          [] outcome = "gateway" -> stream_error_text("502 Bad Gateway")
          [] outcome = "failure" -> stream_error_text("connection reset")
          [] outcome = "partial" ->
               generated_text(chapter) \o stream_error_text("connection reset")]

\* Variant: the leaf is replaced by a new dict that holds id and content.
write_content_new_dict(chapter, content) ==
    [chapter EXCEPT !.content = content, !.keys = {"id", "content"},
                    !.title = "", !.description = ""]

\* if content: chapter['content'] = content (lines 261-262)
write_content(chapter, content) ==
    IF content # <<>>
    THEN [chapter EXCEPT !.content = content, !.keys = @ \cup {"content"}]
    ELSE chapter

\* chapter.get('id', 'unknown') (lines 231 and 282)
chapter_id(chapter) == IF "id" \in chapter.keys THEN chapter.id ELSE <<"unknown">>

\* sibling.get('id') (line 310): None, here the empty text, without the key
sibling_get_id(sibling) == IF "id" \in sibling.keys THEN sibling.id ELSE <<>>

\* current_parent_chapters of the chapter at p (lines 244-248): the chain
\* handed down by the recursion plus the chapter itself.  An entry is named
\* by the position of the chapter whose id, title and description it holds.
current_parent_chapters(p) == [k \in 1..Len(p) |-> SubSeq(p, 1, k)]

\* The argument parent_chapters of the call for the leaf at p:
\* current_parent_chapters[:-1] (line 256)
leaf_parent_chapters(p) == SubSeq(current_parent_chapters(p), 1, Len(p) - 1)

\* The entries of sibling_chapters that the prompt lists (lines 307-311),
\* by their index in the list: those whose id differs from chapter_id.
listed_siblings(sibling_chapters, chapter) ==
    SelectSeq([k \in 1..Len(sibling_chapters) |-> k],
              LAMBDA k : sibling_get_id(sibling_chapters[k]) # chapter_id(chapter))

\* The leaf that the recursion reaches first from the chapter at p: it
\* descends into the first child until is_leaf holds (lines 231-265).
RECURSIVE first_leaf(_, _)
first_leaf(chapters, p) ==
    IF is_leaf(node_at(chapters, p)) THEN p ELSE first_leaf(chapters, Append(p, 1))

\* The leaf that follows once the chapter at p is done: the next chapter of
\* the same list, or what follows the parent; <<>> when the loops are over.
RECURSIVE next_leaf(_, _)
next_leaf(chapters, p) ==
    IF p = <<>> THEN <<>>
    ELSE LET parent == SubSeq(p, 1, Len(p) - 1)
             i == p[Len(p)]
         IN  IF i < Len(children_at(chapters, parent))
             THEN first_leaf(chapters, Append(parent, i + 1))
             ELSE next_leaf(chapters, parent)

\* raise Exception(f"... {str(e)}") of lines 226-227
fill_exception(e) == <<"processing failed: ", e>>

(***************************************************************************)
(* Quiescent values of each part                                           *)
(***************************************************************************)
IdleAlloc ==
    /\ a_pc = "idle"
    /\ level1_count = 0
    /\ important_indexes = <<0, 0>>
    /\ total_leaf_nodes = 0
    /\ a_result = NoDistribution
    /\ level1_index = 0
    /\ a_template = NoTemplate

IdleGen == gen = [p \in Callers |-> GenIdle]

IdleOutline ==
    /\ o_pc = "idle"
    /\ level_l1 = <<>>
    /\ nodes_distribution = NoDistribution
    /\ semaphore = semaphore_limit
    /\ t_pc = [i \in Tasks |-> "none"]
    /\ t_result = [i \in Tasks |-> NoNode]
    /\ first_done = -1
    /\ outline = <<>>
    /\ o_error = NoError

IdleRoute == r_pc = "idle"

IdleStream ==
    /\ s_pc = "idle"
    /\ s_response = <<>>
    /\ s_rest = <<>>
    /\ is_thinking = FALSE
    /\ full_content = <<>>

IdleFill ==
    /\ f_pc = "idle"
    /\ f_valid = FALSE
    /\ f_input = <<>>
    /\ f_result = <<>>
    /\ f_pos = <<>>
    /\ f_calls = <<>>
    /\ f_error = <<>>

NoVerdict == [ok |-> FALSE, msg |-> "none", path |-> <<>>, key |-> <<>>]

IdleJson ==
    /\ j_pc = "idle"
    /\ j_schema = PyNone
    /\ j_data = PyNone
    /\ j_json_str = <<>>
    /\ j_verdict = NoVerdict

(***************************************************************************)
(* Specifications                                                          *)
(***************************************************************************)
\* calculate_nodes_distribution over bounded arguments
AllocInit ==
    /\ IdleRoute
    /\ IdleStream
    /\ a_pc = "input"
    /\ level1_count \in 2..MaxLevel1
    /\ important_indexes \in get_random_indexes(level1_count)
    /\ total_leaf_nodes \in 1..MaxTotalLeaf
    /\ a_result = NoDistribution
    /\ level1_index = 0
    /\ a_template = NoTemplate
    /\ IdleGen
    /\ IdleOutline
    /\ IdleFill
    /\ IdleJson

CalculateNodesDistribution ==
    /\ a_pc = "input"
    /\ \E up \in SUBSET TieSections(level1_count, important_indexes, total_leaf_nodes) :
          a_result' = calculate_nodes_distribution(level1_count, important_indexes,
                                                   total_leaf_nodes, up)
    /\ a_pc' = "done"
    /\ UNCHANGED <<routeVars, streamVars, fillVars, level1_count, important_indexes, total_leaf_nodes, level1_index,
                   a_template, genVars, outlineVars, jsonVars>>

\* generate_one_outline_json_by_level1(title, i + 1, nodes_distribution), the
\* call of process_level1_node for section i
GenerateOneOutline ==
    /\ a_pc = "done"
    /\ a_result.status = "returned"
    /\ \E index \in 1..level1_count :
          /\ level1_index' = index
          /\ a_template' = generate_one_outline_json_by_level1("title", index, a_result)
    /\ a_pc' = "built"
    /\ UNCHANGED <<routeVars, streamVars, fillVars, level1_count, important_indexes, total_leaf_nodes, a_result, genVars,
                   outlineVars, jsonVars>>

AllocNext == CalculateNodesDistribution \/ GenerateOneOutline

SpecAlloc == AllocInit /\ [][AllocNext]_vars

\* The conversations, temperatures (in tenths) and response formats that the
\* retry driver passes to _generate_with_json_check.
GeneratorArguments ==
    [messages : {<<"user">>, <<"system", "user">>},
     temperature : {0, 7},
     response_format : {"None", "json_object"}]

\* _generate_with_json_check alone, over bounded arguments
RetryInit ==
    /\ IdleRoute
    /\ IdleStream
    /\ IdleAlloc
    /\ IdleOutline
    /\ IdleFill
    /\ IdleJson
    /\ \E maxr \in 0..MaxRetriesTried, rof \in BOOLEAN, prefix \in {"", "level-1 outline"},
          args \in GeneratorArguments :
          gen = [p \in Callers |->
                    IF p = 0
                    THEN [GenStart(maxr, rof, prefix) EXCEPT
                             !.messages = args.messages,
                             !.temperature = args.temperature,
                             !.response_format = args.response_format]
                    ELSE GenIdle]

RetryAttempt ==
    /\ gen[0].pc = "call"
    /\ \E resp \in Responses(0, gen[0].calls + 1) :
          gen' = [gen EXCEPT ![0] = GenAttempt(gen[0], resp)]
    /\ UNCHANGED <<routeVars, streamVars, fillVars, allocVars, outlineVars, jsonVars>>

RetryNext == RetryAttempt

SpecRetry == RetryInit /\ [][RetryNext]_vars

\* generate_outline_v2
OutlineEntry ==
    /\ IdleAlloc
    /\ IdleJson
    /\ IdleFill
    /\ IdleStream
    /\ gen = [p \in Callers |->
                 IF p = 0 THEN GenStart(seed_max_retries, seed_raise_on_fail, seed_log_prefix)
                 ELSE GenIdle]
    /\ o_pc = "seeds"
    /\ level_l1 = <<>>
    /\ nodes_distribution = NoDistribution
    /\ semaphore = semaphore_limit
    /\ t_pc = [i \in Tasks |-> "none"]
    /\ t_result = [i \in Tasks |-> NoNode]
    /\ first_done = -1
    /\ outline = <<>>
    /\ o_error = NoError

OutlineInit == IdleRoute /\ OutlineEntry

OutlineNext ==
    \/ SeedRetry
    \/ SeedsExhausted
    \/ SeedsRejected
    \/ SeedsAccepted
    \/ \E i \in Tasks : TaskRetry(i)
    \/ \E i \in Tasks : TaskEnd(i)
    \/ GatherReturn
    \/ GatherRaise

SpecOutline == OutlineInit /\ [][OutlineNext]_vars

\* The event loop runs every task that is ready and the generator answers
\* every call, so a section task that holds a slot goes on with its next
\* step, also after gather has raised: gather does not cancel the others.
SpecOutlineFair ==
    /\ OutlineInit
    /\ [][OutlineNext]_vars
    /\ \A i \in Tasks : WF_vars(TaskRetry(i) \/ TaskEnd(i))

(***************************************************************************)
(* routers/outline.py: generate_outline.generate (lines 30-68)             *)
(*                                                                         *)
(* generate_outline_v2 runs as compute_task, a task of its own (line 33),  *)
(* while the response generator sends a heartbeat every second (lines      *)
(* 40-42).  The generator holds the only reference to compute_task and     *)
(* never calls cancel on it.                                               *)
(***************************************************************************)
RouteInit == r_pc = "heartbeat" /\ OutlineEntry

\* lines 45-58: compute_task is done with a value; it is sent in pieces and
\* the stream is closed.
RouteSend ==
    /\ r_pc = "heartbeat"
    /\ o_pc = "returned"
    /\ r_pc' = "done"
    /\ UNCHANGED <<streamVars, fillVars, allocVars, genVars, outlineVars, jsonVars>>

\* lines 45 and 59-68: compute_task is done with an exception; await
\* re-raises it and the error payload is sent.
RouteFail ==
    /\ r_pc = "heartbeat"
    /\ o_pc = "raised"
    /\ r_pc' = "failed"
    /\ UNCHANGED <<streamVars, fillVars, allocVars, genVars, outlineVars, jsonVars>>

\* The client goes away while the stream is open: the response generator is
\* cancelled where it is suspended, at the yield of line 41 or the sleep of
\* line 42.  CancelledError and GeneratorExit are no Exception, so the
\* handler of line 59 does not run; compute_task is not awaited at that
\* point and nothing cancels it, so it stays scheduled on the event loop.
ClientDisconnect ==
    /\ r_pc = "heartbeat"
    /\ r_pc' = "cancelled"
    /\ UNCHANGED <<streamVars, fillVars, allocVars, genVars, outlineVars, jsonVars>>

RouteNext ==
    \/ OutlineNext
    \/ RouteSend
    \/ RouteFail
    \/ ClientDisconnect

SpecRoute == RouteInit /\ [][RouteNext]_vars

\* _collect_stream_text over bounded responses, cut into chunks in every way
RECURSIVE Texts(_)
Texts(n) ==
    IF n = 0 THEN {<<>>}
    ELSE Texts(n - 1) \cup {Append(t, c) : t \in Texts(n - 1), c \in Pieces}

StreamInit ==
    /\ IdleAlloc
    /\ IdleGen
    /\ IdleOutline
    /\ IdleJson
    /\ IdleFill
    /\ IdleRoute
    /\ s_pc = "streaming"
    /\ s_response \in Texts(MaxResponseLen)
    /\ s_rest = s_response
    /\ is_thinking = FALSE
    /\ full_content = <<>>

\* One chunk arrives: the first n pieces of what is left (lines 59-83), and
\* what stream_chat_completion yields is appended (lines 113-118).
ReceiveChunk ==
    /\ s_pc = "streaming"
    /\ \E n \in 1..Len(s_rest) :
          LET r == filter_chunk(SubSeq(s_rest, 1, n), is_thinking)
          IN  /\ is_thinking' = r.is_thinking
              /\ full_content' = full_content \o r.yield
              /\ s_rest' = From(s_rest, n + 1)
    /\ UNCHANGED <<routeVars, fillVars, allocVars, genVars, outlineVars, jsonVars,
                   s_pc, s_response>>

\* The stream ends and _collect_stream_text returns full_content (line 119).
EndOfStream ==
    /\ s_pc = "streaming"
    /\ s_rest = <<>>
    /\ s_pc' = "collected"
    /\ UNCHANGED <<routeVars, fillVars, allocVars, genVars, outlineVars, jsonVars,
                   s_response, s_rest, is_thinking, full_content>>

StreamNext == ReceiveChunk \/ EndOfStream

SpecStream == StreamInit /\ [][StreamNext]_vars

\* check_json(json.dumps(x), x) over bounded values x, built one node at a time
RECURSIVE json_size(_)
RECURSIVE json_size_all(_)
json_size(v) == 1 + json_size_all(v.items)
json_size_all(elems) ==
    IF elems = <<>> THEN 0 ELSE json_size(Head(elems)) + json_size_all(Tail(elems))

StringContents == {<<"a">>, <<ThinkOpen>>, <<ThinkClose>>, <<Fence>>}
KeyNames == {<<"a">>, <<"b">>, <<Fence>>}
JsonScalars == {PyInt, PyFloat, PyBool, PyNone} \cup {PyStr(c) : c \in StringContents}
JsonElements ==
    JsonScalars \cup {PyList(<<>>), PyList(<<PyInt>>), PyDict(<<>>, <<>>),
                      PyDict(<<<<"a">>>>, <<PyInt>>)}

JsonInit ==
    /\ IdleRoute
    /\ IdleStream
    /\ IdleAlloc
    /\ IdleGen
    /\ IdleOutline
    /\ IdleFill
    /\ j_pc = "build"
    /\ j_schema \in JsonScalars \cup {PyList(<<>>), PyDict(<<>>, <<>>)}
    /\ j_data = PyNone
    /\ j_json_str = <<>>
    /\ j_verdict = NoVerdict

Grow(v) ==
    /\ j_pc = "build"
    /\ json_size(v) <= MaxJsonSize
    /\ j_schema' = v
    /\ UNCHANGED <<routeVars, streamVars, fillVars, allocVars, genVars, outlineVars, j_pc, j_data, j_json_str, j_verdict>>

WrapInList == Grow(PyList(<<j_schema>>))

WrapInDict == \E k \in KeyNames : Grow(PyDict(<<k>>, <<j_schema>>))

AppendItem ==
    /\ j_schema.t = "list"
    /\ \E e \in JsonElements : Grow(PyList(Append(j_schema.items, e)))

PutKey ==
    /\ j_schema.t = "dict"
    /\ \E k \in KeyNames, e \in JsonElements :
          /\ \A n \in 1..Len(j_schema.keys) : j_schema.keys[n] # k
          /\ Grow(PyDict(Append(j_schema.keys, k), Append(j_schema.items, e)))

\* check_json(json.dumps(x), x)
CheckSelf ==
    /\ j_pc = "build"
    /\ j_json_str' = json_dumps(j_schema)
    /\ j_verdict' = check_json(json_dumps(j_schema), j_schema)
    /\ j_pc' = "checked"
    /\ j_data' = j_schema
    /\ UNCHANGED <<routeVars, streamVars, fillVars, allocVars, genVars, outlineVars, j_schema>>

JsonNext == WrapInList \/ WrapInDict \/ AppendItem \/ PutKey \/ CheckSelf

SpecJson == JsonInit /\ [][JsonNext]_vars

\* A section response as process_level1_node meets it: the text passes
\* check_json against the template inside _generate_with_json_check and is
\* then parsed at line 520.  Besides the serialization alone, the generator
\* may put it in a Markdown code fence or after a think block.
Wrappings(text) ==
    {<<Fence, JsonTag, Space>> \o text \o <<Space, Fence>>,
     <<Fence, Space>> \o text \o <<Space, Fence>>,
     <<ThinkOpen, Space, ThinkClose>> \o text}

\* json.loads(full_content.strip()) of line 520
section_loads(text) == json_loads(strip(text))

\* lines 146-148: check_json on the wrapped text
CheckWrapped ==
    /\ j_pc = "build"
    /\ \E text \in Wrappings(json_dumps(j_schema)) :
          /\ j_json_str' = text
          /\ j_verdict' = check_json(text, j_schema)
    /\ j_pc' = "checked"
    /\ j_data' = j_schema
    /\ UNCHANGED <<routeVars, streamVars, fillVars, allocVars, genVars, outlineVars, j_schema>>

SectionNext == JsonNext \/ CheckWrapped

SpecSection == JsonInit /\ [][SectionNext]_vars

\* check_json(json.dumps(target), template) over bounded pairs of values,
\* each built one node at a time
CheckKeys == {<<"a">>, <<"b">>}
CheckLeaves ==
    {PyInt, PyFloat, PyBool, PyNone, PyStr(<<"a">>), PyList(<<>>), PyDict(<<>>, <<>>)}

\* The values that hold one node more than v: a leaf appended to a list or
\* put under a new key of a dict, at any depth of v.
RECURSIVE Grown(_)
Grown(v) ==
    LET inside == UNION {{[v EXCEPT !.items[n] = c] : c \in Grown(v.items[n])} :
                            n \in 1..Len(v.items)}
    IN  CASE v.t = "list" ->
               inside \cup {PyList(Append(v.items, e)) : e \in CheckLeaves}
          [] v.t = "dict" ->
               inside \cup {PyDict(Append(v.keys, k), Append(v.items, e)) :
                               k \in {c \in CheckKeys : \A n \in 1..Len(v.keys) : v.keys[n] # c},
                               e \in CheckLeaves}
          [] OTHER -> {}

\* The ways the caller can hand the template over: as JSON text, or, for a
\* dict or list, as the value itself (lines 32-35).
SchemaArguments(template) ==
    {PyStr(json_dumps(template))}
        \cup (IF template.t \in {"list", "dict"} THEN {template} ELSE {})

CheckInit ==
    /\ IdleRoute
    /\ IdleStream
    /\ IdleAlloc
    /\ IdleGen
    /\ IdleOutline
    /\ IdleFill
    /\ j_pc = "build"
    /\ j_schema \in CheckLeaves
    /\ j_data \in CheckLeaves
    /\ j_json_str = <<>>
    /\ j_verdict = NoVerdict

GrowTemplate ==
    /\ j_pc = "build"
    /\ \E v \in Grown(j_schema) :
          /\ json_size(v) + json_size(j_data) <= MaxPairSize
          /\ j_schema' = v
    /\ UNCHANGED <<routeVars, streamVars, fillVars, allocVars, genVars, outlineVars, j_pc, j_data, j_json_str, j_verdict>>

GrowTarget ==
    /\ j_pc = "build"
    /\ \E v \in Grown(j_data) :
          /\ json_size(j_schema) + json_size(v) <= MaxPairSize
          /\ j_data' = v
    /\ UNCHANGED <<routeVars, streamVars, fillVars, allocVars, genVars, outlineVars, j_pc, j_schema, j_json_str, j_verdict>>

\* check_json(json.dumps(target), schema)
CheckJson ==
    /\ j_pc = "build"
    /\ j_json_str' = json_dumps(j_data)
    /\ \E schema \in SchemaArguments(j_schema) :
          j_verdict' = check_json(json_dumps(j_data), schema)
    /\ j_pc' = "checked"
    /\ UNCHANGED <<routeVars, streamVars, fillVars, allocVars, genVars, outlineVars, j_schema, j_data>>

CheckNext == GrowTemplate \/ GrowTarget \/ CheckJson

SpecCheck == CheckInit /\ [][CheckNext]_vars

\* generate_content_for_outline over bounded outlines, built one chapter at
\* a time
RECURSIVE chapter_count(_)
chapter_count(chapters) ==
    IF chapters = <<>> THEN 0
    ELSE 1 + chapter_count(Head(chapters).children) + chapter_count(Tail(chapters))

\* The outlines with one chapter more: a leaf, with an empty list of
\* children or with none, appended to the list or to the children of any
\* chapter; the new chapter's id is its dotted position.
RECURSIVE Extended(_, _)
Extended(chapters, prefix) ==
    {Append(chapters, Chapter(prefix \o <<ToString(Len(chapters) + 1)>>, wc)) :
        wc \in BOOLEAN}
    \cup UNION {{[chapters EXCEPT ![n].children = c, ![n].keys = @ \cup {"children"}] :
                    c \in Extended(chapters[n].children, chapters[n].id \o <<".">>)} :
                 n \in 1..Len(chapters)}

FillInit ==
    /\ IdleRoute
    /\ IdleStream
    /\ IdleAlloc
    /\ IdleGen
    /\ IdleOutline
    /\ IdleJson
    /\ f_pc = "build"
    /\ f_valid \in BOOLEAN
    /\ f_input = <<>>
    /\ f_result = <<>>
    /\ f_pos = <<>>
    /\ f_calls = <<>>
    /\ f_error = <<>>

AddChapter ==
    /\ f_pc = "build"
    /\ f_valid
    /\ chapter_count(f_input) < MaxChapters
    /\ f_input' \in Extended(f_input, <<>>)
    /\ UNCHANGED <<routeVars, streamVars, allocVars, genVars, outlineVars, jsonVars,
                   f_pc, f_valid, f_result,
                   f_pos, f_calls, f_error>>

\* lines 214-215 and 226-227: the argument is no dict with the key outline
FillRejected ==
    /\ f_pc = "build"
    /\ ~f_valid
    /\ f_pc' = "raised"
    /\ f_error' = fill_exception("invalid outline data format")
    /\ UNCHANGED <<routeVars, streamVars, allocVars, genVars, outlineVars, jsonVars,
                   f_valid, f_input, f_result,
                   f_pos, f_calls>>

\* lines 217-222: deep copy, then the recursion up to its first generation
\* call, or to its end when the outline has no chapter
FillStart ==
    /\ f_pc = "build"
    /\ f_valid
    /\ f_result' = f_input
    /\ IF f_input = <<>>
       THEN f_pc' = "returned" /\ f_pos' = <<>>
       ELSE f_pc' = "filling" /\ f_pos' = first_leaf(f_input, <<1>>)
    /\ UNCHANGED <<routeVars, streamVars, allocVars, genVars, outlineVars, jsonVars,
                   f_valid, f_input, f_calls,
                   f_error>>

\* lines 251-262: the generation call for the leaf at f_pos ends, its text
\* is written, and the recursion goes on to the next call or to the return
GenerateLeaf ==
    /\ f_pc = "filling"
    /\ \E outcome \in Outcomes :
          LET chapter == node_at(f_result, f_pos)
              r == generate_chapter_content(chapter, outcome)
              written == set_chapter(f_result, f_pos, write_content(chapter, r.content))
              following == next_leaf(written, f_pos)
              siblings == children_at(f_result, SubSeq(f_pos, 1, Len(f_pos) - 1))
          IN  /\ f_calls' = Append(f_calls,
                                   [path |-> f_pos, outcome |-> outcome,
                                    parent_chapters |-> leaf_parent_chapters(f_pos),
                                    sibling_chapters |-> listed_siblings(siblings, chapter)])
              /\ IF r.raised
                 THEN /\ f_pc' = "raised"
                      /\ f_error' = fill_exception("generation failed")
                      /\ UNCHANGED <<f_result, f_pos>>
                 ELSE /\ f_result' = written
                      /\ f_pos' = following
                      /\ f_pc' = IF following = <<>> THEN "returned" ELSE "filling"
                      /\ UNCHANGED f_error
    /\ UNCHANGED <<routeVars, streamVars, allocVars, genVars, outlineVars, jsonVars,
                   f_valid, f_input>>

FillNext == AddChapter \/ FillRejected \/ FillStart \/ GenerateLeaf

SpecFill == FillInit /\ [][FillNext]_vars

\* generate_content_for_outline over outlines in which one chapter has no
\* id or the id of the chapter before it: the argument is any dict, and the
\* ids of a generated outline are texts chosen by the generator.
RECURSIVE positional(_, _)
positional(chapters, prefix) ==
    \A k \in 1..Len(chapters) :
        /\ "id" \in chapters[k].keys
        /\ chapters[k].id = prefix \o <<ToString(k)>>
        /\ positional(chapters[k].children, chapters[k].id \o <<".">>)

OddLeaves(chapters) ==
    {[Chapter(<<>>, FALSE) EXCEPT !.keys = @ \ {"id"}]}
    \cup (IF chapters = <<>> THEN {}
          ELSE {Chapter(chapters[Len(chapters)].id, FALSE)})

RECURSIVE ExtendedOdd(_)
ExtendedOdd(chapters) ==
    {Append(chapters, odd) : odd \in OddLeaves(chapters)}
    \cup UNION {{[chapters EXCEPT ![n].children = c, ![n].keys = @ \cup {"children"}] :
                    c \in ExtendedOdd(chapters[n].children)} :
                 n \in 1..Len(chapters)}

AddOddChapter ==
    /\ f_pc = "build"
    /\ f_valid
    /\ chapter_count(f_input) < MaxChapters
    /\ positional(f_input, <<>>)
    /\ f_input' \in ExtendedOdd(f_input)
    /\ UNCHANGED <<routeVars, streamVars, allocVars, genVars, outlineVars, jsonVars,
                   f_pc, f_valid, f_result, f_pos, f_calls, f_error>>

ContextNext == FillNext \/ AddOddChapter

SpecContext == FillInit /\ [][ContextNext]_vars

(***************************************************************************)
(* Claims                                                                  *)
(***************************************************************************)
\* C1: for every sectionCount >= 2, distinct priority indices and
\* totalLeafBudget >= sectionCount, calculate_nodes_distribution returns a
\* distribution whose leaf_nodes sum to exactly totalLeafBudget.
C1_LeafSumExact ==
    (a_pc = "done" /\ total_leaf_nodes >= level1_count) =>
        /\ a_result.status = "returned"
        /\ SumSeq(a_result.leaf_nodes) = total_leaf_nodes

\* C2: for the same arguments every entry of level2_nodes is >= 1 (the base
\* second-level count is clamped to a minimum of 1).
C2_Level2AtLeastOne ==
    (a_pc = "done" /\ total_leaf_nodes >= level1_count) =>
        /\ a_result.status = "returned"
        /\ \A k \in 1..level1_count : a_result.level2_nodes[k] >= 1

\* ---- _generate_with_json_check (SpecRetry) ----
AllFailed(g) == \A k \in 1..Len(g.validations) : ~g.validations[k]

FirstPassing(g) ==
    CHOOSE k \in 1..Len(g.validations) :
        g.validations[k] /\ \A j \in 1..(k - 1) : ~g.validations[j]

MessageParts(msg) == {msg[k] : k \in 1..Len(msg)}

\* C3: if the k-th response is the first that passes validation and
\* k <= max_retries + 1, the call returns exactly that response after exactly
\* k generator calls and k - 1 backoff sleeps, and calls the generator no more.
C3_FirstValidResponseReturned ==
    LET g == gen[0]
    IN  (~AllFailed(g) /\ FirstPassing(g) <= g.max_retries + 1) =>
            /\ g.pc = "returned"
            /\ g.result = [caller |-> 0, call |-> FirstPassing(g),
                           kind |-> g.full_content.kind, seeds |-> g.full_content.seeds]
            /\ g.result = g.full_content
            /\ passes_check(g.result)
            /\ g.calls = FirstPassing(g)
            /\ g.sleeps = FirstPassing(g) - 1
            /\ g.exception = <<>>

C3_Witness ==
    LET g == gen[0]
    IN  /\ g.max_retries = 3
        /\ g.validations = <<FALSE, FALSE, TRUE>>
        /\ g.pc = "returned"
        /\ g.result.call = 3
        /\ g.sleeps = 2

\* C4: with raise_on_fail = False and a generator whose every response fails
\* validation, the call makes exactly max_retries + 1 generator calls, raises
\* nothing and returns the text of the last call unchanged.
C4_ReturnLastAfterBudget ==
    LET g == gen[0]
    IN  (g.pc # "idle" /\ ~g.raise_on_fail /\ AllFailed(g)) =>
            /\ g.pc # "raised"
            /\ g.exception = <<>>
            /\ g.calls <= g.max_retries + 1
            /\ (g.calls = g.max_retries + 1) <=> (g.pc = "returned")
            /\ g.pc = "returned" =>
                   /\ g.result = g.full_content
                   /\ g.result.call = g.max_retries + 1
                   /\ g.result.caller = 0

C4_Witness ==
    LET g == gen[0]
    IN  /\ g.max_retries = 3
        /\ ~g.raise_on_fail
        /\ g.validations = <<FALSE, FALSE, FALSE, FALSE>>
        /\ g.pc = "returned"
        /\ g.result.call = 4
        /\ g.calls = 4

\* C5: with raise_on_fail = True, when all max_retries + 1 responses fail
\* validation the call raises an error that carries both the last validation
\* error message and the retry count.
C5_ErrorCarriesMessageAndCount ==
    LET g == gen[0]
    IN  (g.raise_on_fail /\ AllFailed(g) /\ g.calls = g.max_retries + 1) =>
            /\ g.pc = "raised"
            /\ check_error(g.full_content) \in MessageParts(g.exception)
            /\ ToString(g.max_retries) \in MessageParts(g.exception)

\* ---- generate_outline_v2 (SpecOutline) ----
SectionTasks == {i \in Tasks : i < Len(level_l1)}

\* C6: the outline has the sections in the order of the seed list: entry i is
\* the result of the task created for seed i, whichever task ended first.
C6_OutlineInSeedOrder ==
    o_pc = "returned" =>
        /\ Len(outline) = Len(level_l1)
        /\ \A i \in SectionTasks :
              /\ outline[i + 1] = t_result[i]
              /\ outline[i + 1].caller = i + 1

C6_Witness ==
    /\ o_pc = "returned"
    /\ Len(outline) = 3
    /\ first_done = 2
    /\ \A i \in SectionTasks : outline[i + 1].caller = i + 1

\* C7: when one section's expansion fails (output still invalid after all
\* retries, or the task raises), generate_outline_v2 does not fail: it returns
\* one entry per seed, the failed section being a placeholder without children
\* and every other section's result being kept.
SectionFailed(i) ==
    \/ t_pc[i] = "raised"
    \/ t_pc[i] = "done" /\ t_result[i].kind # "valid"

C7_FailedSectionBecomesPlaceholder ==
    (\E i \in SectionTasks : SectionFailed(i)) =>
        /\ o_pc # "raised"
        /\ o_pc = "returned" =>
               /\ Len(outline) = Len(level_l1)
               /\ \A i \in SectionTasks :
                     IF SectionFailed(i)
                     THEN outline[i + 1].kind = "placeholder"
                     ELSE outline[i + 1] = t_result[i]

\* C8: if the seed list still fails validation after all retries,
\* generate_outline_v2 fails with that error, and no allocation is computed,
\* no section task is started and no outline is returned.
SeedsFailedAllRetries ==
    /\ o_pc # "idle"
    /\ gen[0].calls = seed_max_retries + 1
    /\ AllFailed(gen[0])

C8_SeedFailureAbortsOutline ==
    SeedsFailedAllRetries =>
        /\ o_pc = "raised"
        /\ o_error = [type |-> "Exception",
                      msg |-> exception_message(seed_log_prefix,
                                                check_error(gen[0].full_content))]
        /\ level_l1 = <<>>
        /\ nodes_distribution = NoDistribution
        /\ \A i \in Tasks : t_pc[i] = "none" /\ t_result[i] = NoNode
        /\ \A p \in Callers \ {0} : gen[p] = GenIdle
        /\ semaphore = semaphore_limit
        /\ outline = <<>>

C8_Witness ==
    /\ o_pc = "raised"
    /\ gen[0].validations = <<FALSE, FALSE, FALSE, FALSE>>
    /\ o_error.type = "Exception"
    /\ outline = <<>>

\* C9: given a validated seed list with exactly one section,
\* generate_outline_v2 does not crash: the allocation succeeds and the result
\* is a one-element outline.
C9_SingleSeedOutline ==
    Len(level_l1) = 1 =>
        /\ o_pc \in {"expanding", "returned"}
        /\ nodes_distribution.status = "returned"
        /\ o_pc = "returned" => Len(outline) = 1

\* ---- check_json (SpecJson) ----
Markers == {ThinkOpen, ThinkClose, Fence}

SeqHasMarker(text) == \E k \in 1..Len(text) : text[k] \in Markers

\* No string and no key of v contains a think tag or a fence.
RECURSIVE NoMarkup(_)
NoMarkup(v) ==
    /\ ~SeqHasMarker(v.s)
    /\ \A k \in 1..Len(v.keys) : ~SeqHasMarker(v.keys[k])
    /\ \A k \in 1..Len(v.items) : NoMarkup(v.items[k])

\* In every list of v, at any depth, every element matches the first element.
RECURSIVE Homogeneous(_)
Homogeneous(v) ==
    /\ v.t = "list" =>
          \A k \in 1..Len(v.items) : check_structure(v.items[k], v.items[1], <<>>).ok
    /\ \A k \in 1..Len(v.items) : Homogeneous(v.items[k])

\* C10 as stated: for any value x built from strings, numbers, booleans,
\* lists and objects, check_json applied to the serialized x with x itself as
\* template returns ok.
C10_Reflexive ==
    j_pc = "checked" => j_verdict.ok

\* C10 amended: check_json(serialize(x), x) returns ok for every list or
\* object x whose strings and keys hold no think tag and no code fence and in
\* whose lists every element matches the first element of its list.
C10_ReflexiveOnHomogeneous ==
    (/\ j_pc = "checked"
     /\ j_schema.t \in {"list", "dict"}
     /\ NoMarkup(j_schema)
     /\ Homogeneous(j_schema)) => j_verdict = Accept

C10_Witness ==
    /\ j_pc = "checked"
    /\ j_schema.t = "dict"
    /\ NoMarkup(j_schema)
    /\ Homogeneous(j_schema)
    /\ \E k \in 1..Len(j_schema.items) :
          /\ j_schema.items[k].t = "list"
          /\ Len(j_schema.items[k].items) >= 2
    /\ j_json_str = json_dumps(j_schema)
    /\ j_verdict.ok

\* ---- check_json on a target and a template (SpecCheck) ----
HasKey(d, key) == \E n \in 1..Len(d.keys) : d.keys[n] = key

DictGet(d, key) == d.items[CHOOSE n \in 1..Len(d.keys) : d.keys[n] = key]

ScalarTypes == {"int", "float", "bool", "NoneType", "str"}

NumberTypes == {"int", "float"}

\* The type rule as the claims state it: two numbers, or the same type.
SameKind(target, template) ==
    \/ template.t \in NumberTypes /\ target.t \in NumberTypes
    \/ template.t = target.t

\* The positions at which the target lacks a key of the template: the path
\* of the object that lacks it and the key.
RECURSIVE MissingKeys(_, _, _)
MissingKeys(target, template, path) ==
    IF template.t = "dict" /\ target.t = "dict" THEN
        {<<path, template.keys[k]>> :
            k \in {n \in 1..Len(template.keys) : ~HasKey(target, template.keys[n])}}
        \cup UNION {MissingKeys(DictGet(target, template.keys[k]), template.items[k],
                                path \o <<".">> \o template.keys[k]) :
                       k \in {n \in 1..Len(template.keys) : HasKey(target, template.keys[n])}}
    ELSE IF template.t = "list" /\ target.t = "list" /\ template.items # <<>> THEN
        UNION {MissingKeys(target.items[i], template.items[1],
                           Append(path, "[" \o ToString(i - 1) \o "]")) :
                  i \in 1..Len(target.items)}
    ELSE {}

\* The positions with a defect of another sort: a type that differs, or an
\* empty list where the template has an element.
RECURSIVE OtherDefects(_, _, _)
OtherDefects(target, template, path) ==
    IF ~SameKind(target, template) THEN {path}
    ELSE IF template.t = "dict" THEN
        UNION {OtherDefects(DictGet(target, template.keys[k]), template.items[k],
                            path \o <<".">> \o template.keys[k]) :
                  k \in {n \in 1..Len(template.keys) : HasKey(target, template.keys[n])}}
    ELSE IF template.t = "list" /\ template.items # <<>> THEN
        IF target.items = <<>> THEN {path}
        ELSE UNION {OtherDefects(target.items[i], template.items[1],
                                 Append(path, "[" \o ToString(i - 1) \o "]")) :
                       i \in 1..Len(target.items)}
    ELSE {}

C12_ScalarTypeRule ==
    (j_pc = "checked" /\ j_schema.t \in ScalarTypes) =>
        /\ j_verdict.ok <=> SameKind(j_data, j_schema)
        /\ ~j_verdict.ok => j_verdict = Reject("type mismatch", <<>>, <<>>)

\* C13: an empty template list accepts every target list; a template list
\* with an element rejects the empty target list and accepts another target
\* list exactly when each of its elements matches the template's first one.
C13_ListRule ==
    (j_pc = "checked" /\ j_schema.t = "list" /\ j_data.t = "list") =>
        /\ j_schema.items = <<>> => j_verdict.ok
        /\ (j_schema.items # <<>> /\ j_data.items = <<>>) => ~j_verdict.ok
        /\ (j_schema.items # <<>> /\ j_data.items # <<>>) =>
               (j_verdict.ok <=>
                   \A i \in 1..Len(j_data.items) :
                       check_structure(j_data.items[i], j_schema.items[1], <<>>).ok)

C13_Witness ==
    /\ j_pc = "checked"
    /\ j_schema.t = "list" /\ Len(j_schema.items) = 1
    /\ j_data.t = "list" /\ Len(j_data.items) = 2
    /\ j_data.items[1] # j_data.items[2]
    /\ j_verdict.ok

\* C14: an object template accepts a target object exactly when every key of
\* the template is in the target with a value that matches the template's
\* value; keys that only the target has never change the result.
C14_DictRule ==
    (j_pc = "checked" /\ j_schema.t = "dict" /\ j_data.t = "dict") =>
        /\ j_verdict.ok <=>
               \A k \in 1..Len(j_schema.keys) :
                   /\ HasKey(j_data, j_schema.keys[k])
                   /\ check_structure(DictGet(j_data, j_schema.keys[k]),
                                      j_schema.items[k], <<>>).ok
        /\ \A key \in {c \in CheckKeys \cup {<<"c">>} : ~HasKey(j_schema, c)},
              e \in CheckLeaves :
               check_structure(dict_put(j_data, key, e), j_schema, <<>>) = j_verdict

C14_Witness ==
    /\ j_pc = "checked"
    /\ j_schema.t = "dict" /\ j_schema.keys = <<(<<"a">>)>>
    /\ j_data.t = "dict" /\ Len(j_data.keys) = 2
    /\ HasKey(j_data, <<"b">>)
    /\ j_verdict.ok

\* ---- outline_util.py, continued (SpecAlloc) ----
\* All nodes of a template, the root included.
TemplateNodes(node) ==
    {node} \cup {node.children[j] : j \in 1..Len(node.children)}
           \cup UNION {{node.children[j].children[k] :
                           k \in 1..Len(node.children[j].children)} :
                        j \in 1..Len(node.children)}

NodeCount(node) ==
    1 + Len(node.children)
      + SumSeq([j \in 1..Len(node.children) |-> Len(node.children[j].children)])

\* C15: for every section ordinal n and every distribution the template has
\* id n, exactly level2_nodes[n-1] children with ids n.j, the j-th of which
\* has exactly leaf_per_level2[n-1][j-1] children with ids n.j.k; every id is
\* the parent's id, a dot and the 1-based position, and all ids are distinct.
C15_TemplateIds ==
    a_pc = "built" =>
        LET n == level1_index
            root == a_template
        IN  /\ root.id = <<ToString(n)>>
            /\ Len(root.children) = a_result.level2_nodes[n]
            /\ \A j \in 1..Len(root.children) :
                  LET child == root.children[j]
                  IN  /\ child.id = root.id \o <<".", ToString(j)>>
                      /\ Len(child.children) = a_result.leaf_per_level2[n][j]
                      /\ \A k \in 1..Len(child.children) :
                            child.children[k].id = child.id \o <<".", ToString(k)>>
            /\ Cardinality({nd.id : nd \in TemplateNodes(root)}) = NodeCount(root)

\* C16: level2_nodes[i] is round(base * 1.4) for the first priority index,
\* round(base * 1.2) for the second and base for every other section, with
\* base = round(totalLeafBudget / sectionCount / 3); 5 sections, priority
\* indices (1, 3) and 150 leaves give [10, 14, 10, 12, 10].
C16_Level2Weights ==
    (a_pc # "input" /\ a_result.status = "returned") =>
        LET base == RoundHalfEven(total_leaf_nodes, level1_count * 3)
        IN  /\ \A i \in 0..(level1_count - 1) :
                  a_result.level2_nodes[i + 1] =
                      IF i = important_indexes[1] THEN RoundHalfEven(base * 14, 10)
                      ELSE IF i = important_indexes[2] THEN RoundHalfEven(base * 12, 10)
                      ELSE base
            /\ (level1_count = 5 /\ important_indexes = <<1, 3>> /\ total_leaf_nodes = 150)
                   => a_result.level2_nodes = <<10, 14, 10, 12, 10>>

C16_Witness ==
    /\ a_pc = "done"
    /\ level1_count = 5
    /\ important_indexes = <<1, 3>>
    /\ total_leaf_nodes = 150
    /\ a_result.level2_nodes = <<10, 14, 10, 12, 10>>

\* C17: for every sectionCount >= 2, distinct priority indices and
\* totalLeafBudget >= sectionCount, every leaf_nodes[i] and every entry of
\* leaf_per_level2[i] that is returned is >= 0, the last section included.
C17_LeafBudgetsNonNegative ==
    (a_pc # "input" /\ total_leaf_nodes >= level1_count /\ a_result.status = "returned") =>
        \A i \in 1..level1_count :
            /\ a_result.leaf_nodes[i] >= 0
            /\ \A j \in 1..Len(a_result.leaf_per_level2[i]) :
                  a_result.leaf_per_level2[i][j] >= 0

\* ---- generate_content_for_outline (SpecFill) ----
\* The tree without its content: every chapter with the key content taken out.
RECURSIVE Shape(_)
Shape(chapters) ==
    [n \in 1..Len(chapters) |->
        [chapters[n] EXCEPT !.content = <<>>, !.keys = @ \ {"content"},
                            !.children = Shape(@)]]

\* The paths of all chapters, and of the chapters without children in the
\* order of a depth-first walk.
RECURSIVE AllPaths(_, _)
AllPaths(chapters, prefix) ==
    UNION {{Append(prefix, n)} \cup AllPaths(chapters[n].children, Append(prefix, n)) :
              n \in 1..Len(chapters)}

RECURSIVE LeafSeq(_, _)
LeafSeq(chapters, prefix) ==
    IF chapters = <<>> THEN <<>>
    ELSE LET n == Len(chapters)
             last == chapters[n]
         IN  LeafSeq(SubSeq(chapters, 1, n - 1), prefix)
                 \o (IF last.children = <<>> THEN <<Append(prefix, n)>>
                     ELSE LeafSeq(last.children, Append(prefix, n)))

CallPaths == [k \in 1..Len(f_calls) |-> f_calls[k].path]

EndsWith(text, tail) ==
    /\ Len(text) >= Len(tail)
    /\ SubSeq(text, Len(text) - Len(tail) + 1, Len(text)) = tail

\* C18: the returned tree has the nodes of the input tree, with the same
\* ids, titles, descriptions, parents and sibling order; only content may
\* differ.
C18_StructurePreserved ==
    f_pc \in {"filling", "returned"} => Shape(f_result) = Shape(f_input)

C18_Witness ==
    /\ f_pc = "returned"
    /\ chapter_count(f_input) >= 3
    /\ \E n \in 1..Len(f_input) : Len(f_input[n].children) >= 2
    /\ f_result # f_input

\* C19: on a tree without content, exactly one generation call is issued
\* for each leaf and none for a node with children; the result of a call is
\* written into its leaf only, so only leaves hold content.
C19_OnlyLeavesHoldContent ==
    /\ f_pc \in {"filling", "returned"} =>
           /\ Len(CallPaths) <= Len(LeafSeq(f_input, <<>>))
           /\ CallPaths = SubSeq(LeafSeq(f_input, <<>>), 1, Len(CallPaths))
           /\ \A p \in AllPaths(f_result, <<>>) :
                 LET nd == node_at(f_result, p)
                     done == {k \in 1..Len(f_calls) : f_calls[k].path = p}
                 IN  IF nd.children # <<>> \/ done = {}
                     THEN nd.content = <<>> /\ "content" \notin nd.keys
                     ELSE \A k \in done :
                              nd.content =
                                  generate_chapter_content(node_at(f_input, p),
                                                           f_calls[k].outcome).content
    /\ f_pc = "returned" => CallPaths = LeafSeq(f_input, <<>>)

C19_Witness ==
    /\ f_pc = "returned"
    /\ Len(f_input) = 1
    /\ Len(f_input[1].children) = 2
    /\ f_result[1].content = <<>>
    /\ \A n \in 1..2 : f_result[1].children[n].content =
                             generated_text(f_input[1].children[n])

\* C20: when the generation call of one leaf fails, the error text is
\* written into that leaf's content and the pass goes on: every other leaf
\* gets its call and its content, and the tree is returned.
C20_FailedLeafKeepsErrorText ==
    f_valid =>
        /\ f_pc # "raised"
        /\ f_pc = "returned" =>
               /\ CallPaths = LeafSeq(f_input, <<>>)
               /\ \A k \in 1..Len(f_calls) :
                     LET nd == node_at(f_result, f_calls[k].path)
                     IN  /\ f_calls[k].outcome \in {"gateway", "failure", "partial"} =>
                                /\ "content" \in nd.keys
                                /\ \/ EndsWith(nd.content, <<"error: ", "connection reset">>)
                                   \/ EndsWith(nd.content,
                                               <<"error: gateway timeout (502 Bad Gateway)">>)
                         /\ f_calls[k].outcome = "text" =>
                                nd.content = <<"text for ">> \o nd.id

C20_Witness ==
    /\ f_pc = "returned"
    /\ Len(f_calls) >= 3
    /\ f_calls[1].outcome = "text"
    /\ f_calls[2].outcome = "failure"
    /\ f_calls[3].outcome = "text"
    /\ node_at(f_result, f_calls[2].path).content = <<"error: ", "connection reset">>
    /\ node_at(f_result, f_calls[3].path).content # <<>>

(***************************************************************************)
(* Claims on the section pool and the leaf budget of generate_outline_v2   *)
(***************************************************************************)
\* The section tasks that hold a slot of the semaphore
RunningTasks == {i \in Tasks : t_pc[i] = "running"}

\* The leaf budget the claim C22 names for a list of n validated seeds
ClaimedLeafBudget(n) == IF n * 10 > 150 THEN n * 10 ELSE 150

\* C21: the section pool has a concurrency limit of 5 whatever the number of
\* sections: never more than 5 section tasks are in progress, the slots in
\* use and the free slots add up to 5, and a section task waits for a slot
\* only while 5 others are in progress.
C21_PoolLimitFive ==
    (\E i \in Tasks : t_pc[i] # "none") =>
        /\ Cardinality(RunningTasks) <= 5
        /\ semaphore + Cardinality(RunningTasks) = 5
        /\ (WaitingTasks # {} => Cardinality(RunningTasks) = 5)

\* C22: the allocation that generate_outline_v2 keeps is the one computed
\* for a total leaf budget of max(150, sectionCount * 10).
C22_BudgetFromSectionCount ==
    (nodes_distribution.status = "returned") =>
        LET n == Len(level_l1)
            budget == ClaimedLeafBudget(n)
        IN  /\ SumSeq(nodes_distribution.leaf_nodes) = budget
            /\ \E pair \in get_random_indexes(n) :
               \E up \in SUBSET TieSections(n, pair, budget) :
                  nodes_distribution = calculate_nodes_distribution(n, pair, budget, up)

C24_LeafSpread ==
    (a_pc # "input" /\ a_result.status = "returned") =>
        \A i \in 1..level1_count :
            LET l2 == a_result.level2_nodes[i]
                ln == a_result.leaf_nodes[i]
                per == a_result.leaf_per_level2[i]
            IN  /\ Len(per) = l2
                /\ SumSeq(per) = ln
                /\ \A j \in 1..l2 :
                      per[j] = IF j <= ln % l2 THEN (ln \div l2) + 1 ELSE ln \div l2

\* 5 sections, priority indexes (1, 3), 150 leaves: the first section has 27
\* leaves on 10 level-2 nodes, 3 on each of the first 7 and 2 on the others.
C24_Witness ==
    /\ a_pc = "done"
    /\ level1_count = 5
    /\ important_indexes = <<1, 3>>
    /\ total_leaf_nodes = 150
    /\ a_result.level2_nodes[1] = 10
    /\ a_result.leaf_nodes[1] = 27
    /\ a_result.leaf_per_level2[1] = <<3, 3, 3, 3, 3, 3, 3, 2, 2, 2>>

(***************************************************************************)
(* Claim on the arguments of the generator calls of one activation         *)
(***************************************************************************)
\* C25: every attempt of _generate_with_json_check calls the generator with
\* the conversation, temperature and response format of the first attempt,
\* which are the ones the function was called with: nothing of a failed
\* attempt's error or response enters a later call.
C25_SameRequestEveryAttempt ==
    LET g == gen[0]
    IN  (g.pc # "idle") =>
            /\ Len(g.requests) = g.calls
            /\ \A k \in 1..Len(g.requests) :
                  /\ g.requests[k] = g.requests[1]
                  /\ g.requests[k].messages = g.messages
                  /\ g.requests[k].temperature = g.temperature
                  /\ g.requests[k].response_format = g.response_format
                  /\ \A m \in 1..Len(g.requests[k].messages) :
                        g.requests[k].messages[m] \in {"system", "user"}

\* Two attempts failed with different errors and a third one was made with
\* a conversation of one message, temperature 0 and no response format.
C25_Witness ==
    /\ gen[0].pc = "returned"
    /\ gen[0].calls = 3
    /\ gen[0].validations = <<FALSE, FALSE, TRUE>>
    /\ gen[0].messages = <<"user">>
    /\ gen[0].temperature = 0
    /\ gen[0].response_format = "None"
    /\ Len(gen[0].requests) = 3

(***************************************************************************)
(* Claim on the independence of the section tasks                          *)
(***************************************************************************)
\* C26: a section task that fails, or exhausts its retries, neither cancels
\* nor blocks the others.  Every slot taken is given back when its task ends,
\* by a return or by an exception, so the slots in use and the free slots
\* always add up to the size of the pool; a task that has ended stays ended
\* and no other task is ended with it; and from some point on no section
\* task waits or runs any more: each one, whatever has failed meanwhile,
\* got a slot and ran to its end.
C26_FailureLeavesOthersRunning ==
    /\ []((\E i \in Tasks : t_pc[i] # "none") =>
             semaphore + Cardinality(RunningTasks) = semaphore_limit)
    /\ [][\A i \in Tasks :
             /\ (t_pc[i] = "waiting" => t_pc'[i] \in {"waiting", "running"})
             /\ (t_pc[i] \in {"done", "raised"} => t_pc'[i] = t_pc[i])
             /\ (t_pc[i] = "running" /\ t_pc'[i] # "running" =>
                    \A j \in Tasks \ {i} :
                        t_pc'[j] = t_pc[j] \/ (t_pc[j] = "waiting" /\ t_pc'[j] = "running"))]_vars
    /\ <>[](\A i \in Tasks : t_pc[i] \in {"none", "done", "raised"})

\* Section 0 was the first to end and it raised, gather raised, and section
\* 3, which had to wait for a slot, still got one and returned its value;
\* all the slots are free again.
C26_Witness ==
    /\ o_pc = "raised"
    /\ first_done = 0
    /\ t_pc[0] = "raised"
    /\ t_pc[3] = "done"
    /\ \A i \in Tasks : t_pc[i] \in {"done", "raised"}
    /\ semaphore = semaphore_limit

(***************************************************************************)
(* Claim on the cancellation of an outline generation                      *)
(***************************************************************************)
\* C27: once the caller has cancelled the outline generation (the client of
\* the stream has gone away), no section task and no generator call keeps
\* running: no call is answered, no task moves on and generate_outline_v2
\* goes no further.
C27_CancellationPropagates ==
    [][r_pc = "cancelled" => (gen' = gen /\ t_pc' = t_pc /\ o_pc' = o_pc)]_vars

(***************************************************************************)
(* Claim on the context of a leaf's generation call                        *)
(***************************************************************************)
\* The indexes 1..n without i, in increasing order
Others(n, i) == [k \in 1..(n - 1) |-> IF k < i THEN k ELSE k + 1]

\* The call for the leaf at path was given its ancestors from the top-level
\* chapter down to its parent, and the other chapters of its list in order.
RightContext(call) ==
    LET p == call.path
        parent == SubSeq(p, 1, Len(p) - 1)
    IN  /\ call.parent_chapters = [k \in 1..(Len(p) - 1) |-> SubSeq(p, 1, k)]
        /\ call.sibling_chapters = Others(Len(children_at(f_input, parent)), p[Len(p)])

\* C28: every leaf's generation call receives as ancestors the chain from
\* the top-level chapter down to the leaf's parent, in that order, and as
\* siblings the other children of its parent (the other top-level chapters
\* for a top-level leaf) in their original order, never the leaf itself.
C28_LeafContext ==
    \A k \in 1..Len(f_calls) : RightContext(f_calls[k])

(***************************************************************************)
(* Claim on the think blocks of a streamed response                        *)
(***************************************************************************)
\* The text consists of letters and whole think blocks: every opening tag is
\* closed before the next one opens, and no closing tag stands alone.
RECURSIVE Alternating(_, _)
Alternating(text, inside) ==
    IF text = <<>> THEN ~inside
    ELSE IF Head(text) = ThinkOpen THEN ~inside /\ Alternating(Tail(text), TRUE)
    ELSE IF Head(text) = ThinkClose THEN inside /\ Alternating(Tail(text), FALSE)
    ELSE Head(text) \in {"a", "b"} /\ Alternating(Tail(text), inside)

\* C29: however the provider cuts a response into chunks, the text that
\* _collect_stream_text returns is the response without its think blocks:
\* nothing between an opening tag and its closing tag, and everything
\* outside the blocks, also what follows a block that opens and closes
\* within one chunk.
C29_ThinkBlocksRemoved ==
    (s_pc = "collected" /\ Alternating(join_tags(s_response), FALSE)) =>
        join_tags(full_content) = remove_think_blocks(join_tags(s_response))

(***************************************************************************)
(* Claim on parsing what validation accepted                               *)
(***************************************************************************)
\* C30: a response text that check_json accepted is parsed without failure
\* by process_level1_node, also when it is wrapped in a Markdown code fence
\* or carries a think block that check_json strips before it validates.
C30_ValidatedTextParses ==
    (j_pc = "checked" /\ j_verdict.ok) => section_loads(j_json_str).ok

====
